---- MODULE Spec2Model ----
(***************************************************************************)
(* Model of the Huffman codec of src/src/huffman.rs, driven as             *)
(* src/src/main.rs drives it: HuffmanCodec::encode (CharWeightMap::build,  *)
(* HuffmanTree::build, HuffmanBinaryMap::build, bit packing, codebook      *)
(* text), then DecodeConfig::build and HuffmanCodec::decode.               *)
(*                                                                         *)
(* A char is a one-character TLA+ string, a String a sequence of chars.    *)
(* A HashMap is a set of <<key, value>> pairs with unique keys; where the  *)
(* code iterates over a HashMap, the iteration order is a nondeterministic *)
(* choice among the orders of its entries.  An Rc<RefCell<HuffmanTree>> is *)
(* the index of the node in the vector `vec` of HuffmanTree::build, and    *)
(* Option::None of such a reference is NoNode.                             *)
(***************************************************************************)
EXTENDS Integers, Sequences, FiniteSets, TLC

----------------------------------------------------------------------------
(* Bounds of the model. *)

\* longest input text of the specifications that start from a text
MaxLen == 5
\* largest number of distinct symbols of a frequency table of SpecFreq
MaxSyms == 4
\* largest occurrence count of a symbol in a frequency table of SpecFreq
MaxWeight == 3

\* the symbols the input texts are made of
Alphabet == {"a", "b", ":", "\n"}
\* the symbols of the frequency tables of SpecFreq, in iteration order
FreqSyms == <<"a", "b", ":", "\n", "c", "d">>

----------------------------------------------------------------------------
(* Values of the program. *)

\* Weight::MAX (u64::MAX); the model's integers stop at 2^31 - 1
WeightMAX == 2147483647
\* usize::MAX, what 2 * 0 - 1 wraps to without overflow checks
UsizeMAX == 2147483647
\* isize::MAX / size_of::<Rc<_>>(), the largest Vec<Rc<_>> that can be allocated
MaxNodes == 268435455

NoNode == -1
NoChar == "None"

Bit0 == "0"
Bit1 == "1"
Digits == <<"0", "1", "2", "3", "4", "5", "6", "7", "8", "9">>

\* HuffmanTree::new()
NewNode == [value |-> NoChar, weight |-> 0, parent |-> NoNode,
            left |-> NoNode, right |-> NoNode]

\* every order in which a HashMap holding the entries S may be iterated
Orders(S) ==
    {s \in [1..Cardinality(S) -> S] :
        \A i, j \in 1..Cardinality(S) : i # j => s[i] # s[j]}

\* HashMap::insert
MapInsert(m, k, v) == {p \in m : p[1] # k} \cup {<<k, v>>}
\* HashMap::contains_key
MapHas(m, k) == \E p \in m : p[1] = k
\* HashMap::get(..).unwrap()
MapGet(m, k) == (CHOOSE p \in m : p[1] = k)[2]
MapKeys(m) == {p[1] : p \in m}

----------------------------------------------------------------------------
(* CharWeightMap::build *)

RECURSIVE CountChars(_, _, _)
\* the loop of CharWeightMap::build: map.entry(c).or_insert(0) += 1
CountChars(input, i, map) ==
    IF i > Len(input) THEN map
    ELSE LET c == input[i]
             old == IF MapHas(map, c) THEN MapGet(map, c) ELSE 0
         IN  CountChars(input, i + 1, MapInsert(map, c, old + 1))

CharWeightMapBuild(input) == CountChars(input, 1, {})

----------------------------------------------------------------------------
(* HuffmanTree::find_min *)

RECURSIVE FindMinLoop(_, _, _, _, _)
FindMinLoop(v, i, hi, min, result) ==
    IF i >= hi THEN result
    ELSE IF v[i].parent = NoNode /\ v[i].weight < min
         THEN FindMinLoop(v, i + 1, hi, v[i].weight, i)
         ELSE FindMinLoop(v, i + 1, hi, min, result)

\* find_min without the comparison of weights: the first parentless node
FindMinAnyWeight(v, hi) ==
    IF \E i \in 0..(hi - 1) : v[i].parent = NoNode
    THEN CHOOSE i \in 0..(hi - 1) :
             /\ v[i].parent = NoNode
             /\ \A j \in 0..(i - 1) : v[j].parent # NoNode
    ELSE NoNode

\* find_min without the test of the parent: the first node of least weight
FindMinAnyParent(v, hi) ==
    IF hi <= 0 THEN NoNode
    ELSE CHOOSE i \in 0..(hi - 1) :
             /\ \A j \in 0..(hi - 1) : v[i].weight <= v[j].weight
             /\ \A j \in 0..(i - 1) : v[j].weight > v[i].weight

\* find_min(&vec[..hi]): the first parentless node of least weight, or NoNode
FindMin(v, hi) == FindMinLoop(v, 0, hi, WeightMAX, NoNode)

----------------------------------------------------------------------------
(* HuffmanBinaryMap::build *)

RECURSIVE TreeDfsNoFlip(_, _, _, _)
\* tree_dfs without *last = true: the right subtree is given the path of the
\* left one
TreeDfsNoFlip(v, t, map, path) ==
    IF t = NoNode THEN map
    ELSE LET here == IF v[t].value # NoChar
                     THEN MapInsert(map, v[t].value, path) ELSE map
             l    == TreeDfsNoFlip(v, v[t].left, here, Append(path, FALSE))
         IN  TreeDfsNoFlip(v, v[t].right, l, Append(path, FALSE))

RECURSIVE TreeDfs(_, _, _, _)
\* tree_dfs(tree, map, vec): the map after the traversal of the subtree at t
\* with the path buffer holding path
TreeDfs(v, t, map, path) ==
    IF t = NoNode THEN map
    ELSE LET here == IF v[t].value # NoChar
                     THEN MapInsert(map, v[t].value, path) ELSE map
             l    == TreeDfs(v, v[t].left, here, Append(path, FALSE))
         IN  TreeDfs(v, v[t].right, l, Append(path, TRUE))

HuffmanBinaryMapBuild(v, root) == TreeDfs(v, root, {}, <<>>)

----------------------------------------------------------------------------
(* HuffmanCodec::encode: bit packing *)

RECURSIVE PackBits(_, _, _)
\* vec.iter().for_each(..) of encode: st = [result, buf, count], buf a u8
PackBits(code, i, st) ==
    IF i > Len(code) THEN st
    ELSE LET shifted == (st.buf * 2) % 256
             buf1    == IF code[i] THEN shifted + (1 - (shifted % 2)) ELSE shifted
             count1  == st.count + 1
         IN  IF count1 >= 8
             THEN PackBits(code, i + 1,
                      [result |-> Append(st.result, buf1), buf |-> 0, count |-> 0])
             ELSE PackBits(code, i + 1,
                      [result |-> st.result, buf |-> buf1, count |-> count1])

RECURSIVE PackChars(_, _, _, _)
\* for (_, ch) in source.char_indices() of encode
PackChars(src, map, i, st) ==
    IF i > Len(src) THEN st
    ELSE PackChars(src, map, i + 1, PackBits(MapGet(map, src[i]), 1, st))

RECURSIVE Shl(_, _)
\* buf <<= k on a u8, k < 8
Shl(b, k) == IF k = 0 THEN b ELSE Shl((b * 2) % 256, k - 1)

\* encode without buf <<= space: the last byte is pushed as it is
PackNoShift(src, map) ==
    LET st == PackChars(src, map, 1, [result |-> <<>>, buf |-> 0, count |-> 0])
    IN  IF st.count # 0
        THEN [result |-> Append(st.result, st.buf), space |-> 8 - st.count]
        ELSE [result |-> st.result, space |-> 0]

\* lines 164-185 of encode: the bytes and the padding count
Pack(src, map) ==
    LET st == PackChars(src, map, 1, [result |-> <<>>, buf |-> 0, count |-> 0])
    IN  IF st.count # 0
        THEN [result |-> Append(st.result, Shl(st.buf, 8 - st.count)),
              space  |-> 8 - st.count]
        ELSE [result |-> st.result, space |-> 0]

----------------------------------------------------------------------------
(* impl Display for HuffmanBinaryMap, and the codebook text of encode *)

\* bit_str of fmt: "1" for true, "0" for false
BitStr(code) == [i \in 1..Len(code) |-> IF code[i] THEN Bit1 ELSE Bit0]

RECURSIVE DisplayLoop(_, _, _)
\* self.inner.iter().for_each(..) of fmt, the entries iterated in the order ord
DisplayLoop(ord, i, buf) ==
    IF i > Len(ord) THEN buf
    ELSE DisplayLoop(ord, i + 1,
             buf \o <<ord[i][1]>> \o <<":">> \o BitStr(ord[i][2]) \o <<"\n">>)

Display(ord) == DisplayLoop(ord, 1, <<>>)

RECURSIVE ToDecimal(_)
\* {} of a u8
ToDecimal(k) ==
    IF k < 10 THEN <<Digits[k + 1]>>
    ELSE ToDecimal(k \div 10) \o <<Digits[(k % 10) + 1]>>

\* format!("space:{}\n{}", space, bit_map)
ConfigText(sp, ord) ==
    <<"s", "p", "a", "c", "e", ":">> \o ToDecimal(sp) \o <<"\n">> \o Display(ord)

----------------------------------------------------------------------------
(* DecodeConfig::build *)

RECURSIVE SplitLoop(_, _, _, _, _)
SplitLoop(s, sep, i, cur, acc) ==
    IF i > Len(s) THEN Append(acc, cur)
    ELSE IF s[i] = sep
         THEN SplitLoop(s, sep, i + 1, <<>>, Append(acc, cur))
         ELSE SplitLoop(s, sep, i + 1, Append(cur, s[i]), acc)

\* str::split(sep).collect(): the pieces between the separators
Split(s, sep) == SplitLoop(s, sep, 1, <<>>, <<>>)

DigitValue(c) ==
    IF \E d \in 1..10 : Digits[d] = c
    THEN (CHOOSE d \in 1..10 : Digits[d] = c) - 1
    ELSE -1

RECURSIVE ParseDigits(_, _, _)
ParseDigits(s, i, acc) ==
    IF i > Len(s) THEN acc
    ELSE IF DigitValue(s[i]) < 0 \/ (acc * 10) + DigitValue(s[i]) > 255 THEN -1
         ELSE ParseDigits(s, i + 1, (acc * 10) + DigitValue(s[i]))

\* u8::from_str_radix(s, 10): the number, or -1 for Err
ParseU8(s) ==
    LET digits == IF Len(s) > 0 /\ s[1] = "+" THEN Tail(s) ELSE s
    IN  IF Len(digits) = 0 THEN -1 ELSE ParseDigits(digits, 1, 0)

RECURSIVE ConfigLoop(_, _, _)
\* for s in arr of DecodeConfig::build: cfg = [inner, space, panic]
ConfigLoop(arr, i, cfg) ==
    IF i > Len(arr) \/ cfg.panic THEN cfg
    ELSE LET pair == Split(arr[i], ":")
         IN  IF Len(pair) # 2 THEN ConfigLoop(arr, i + 1, cfg)
             ELSE LET bit   == pair[2]
                      ch    == IF pair[1] = <<>> THEN <<"\n">> ELSE pair[1]
                      isSp  == pair[1] = <<"s", "p", "a", "c", "e">>
                      sp    == IF isSp THEN ParseU8(bit) ELSE cfg.space
                  IN  IF sp < 0
                      THEN [cfg EXCEPT !.panic = TRUE]
                      ELSE ConfigLoop(arr, i + 1,
                               [inner |-> MapInsert(cfg.inner, bit, ch[1]),
                                space |-> sp, panic |-> FALSE])

DecodeConfigBuild(src) ==
    ConfigLoop(Split(src, "\n"), 1, [inner |-> {}, space |-> 0, panic |-> FALSE])

----------------------------------------------------------------------------
(* HuffmanCodec::decode *)

\* format!("{u8:>0width$b}", width = 8): eight binary digits, high bit first
ByteBits(b) ==
    [i \in 1..8 |-> IF (b \div (2 ^ (8 - i))) % 2 = 1 THEN Bit1 ELSE Bit0]

RECURSIVE JoinBits(_, _)
JoinBits(bytes, i) ==
    IF i > Len(bytes) THEN <<>> ELSE ByteBits(bytes[i]) \o JoinBits(bytes, i + 1)

RECURSIVE DecodeLoop(_, _, _, _, _, _)
\* for (i, ch) in bit_str.char_indices() of decode; i counts from 0
DecodeLoop(bits, inner, last_idx, i, tmp, res) ==
    IF i >= Len(bits) \/ i >= last_idx THEN [result |-> res, tmp_str |-> tmp]
    ELSE LET tmp1 == Append(tmp, bits[i + 1])
         IN  IF MapHas(inner, tmp1)
             THEN DecodeLoop(bits, inner, last_idx, i + 1, <<>>,
                      Append(res, MapGet(inner, tmp1)))
             ELSE DecodeLoop(bits, inner, last_idx, i + 1, tmp1, res)

----------------------------------------------------------------------------
(* The state. *)

VARIABLES
    pc,           \* where the run stands
    source,       \* the text given to encode
    char_weight,  \* the CharWeightMap, its entries in iteration order
    n,            \* build: number of distinct symbols
    total,        \* build: number of nodes of the whole tree
    vec,          \* build: the nodes, indexed from 0
    index,        \* build: the loop variable of the merge loop
    m1,           \* build: the node the first find_min returned
    m2,           \* build: the node the second find_min returned
    bit_map,      \* the HuffmanBinaryMap: pairs <<char, code>>
    result,       \* the bytes returned by encode, later given to decode
    space,        \* the padding count computed by encode
    config,       \* the codebook text returned by encode, until it is parsed
    inner,        \* DecodeConfig.inner: pairs <<bit string, char>>
    cfg_space,    \* DecodeConfig.space
    decoded,      \* the String returned by decode
    tmp_str,      \* decode: the candidate bit string when the loop ends
    err           \* the panic message, "" while none

vars == <<pc, source, char_weight, n, total, vec, index, m1, m2, bit_map,
          result, space, config, inner, cfg_space, decoded, tmp_str, err>>

buildVars  == <<n, total, vec, index, m1, m2>>
encodeVars == <<result, space, config>>
decodeVars == <<inner, cfg_space, decoded, tmp_str>>

Texts == UNION {[1..k -> Alphabet] : k \in 0..MaxLen}

\* nothing built, encoded or decoded yet
Blank ==
    /\ n = 0 /\ total = 0 /\ vec = <<>> /\ index = 0
    /\ m1 = NoNode /\ m2 = NoNode
    /\ bit_map = {}
    /\ result = <<>> /\ space = 0 /\ config = <<>>
    /\ inner = {} /\ cfg_space = 0 /\ decoded = <<>> /\ tmp_str = <<>>
    /\ err = ""

\* main.rs:55: encode is about to be called on a text
Init ==
    /\ pc = "start"
    /\ source \in Texts
    /\ char_weight = <<>>
    /\ Blank

RECURSIVE Repeat(_, _)
Repeat(c, k) == IF k = 0 THEN <<>> ELSE <<c>> \o Repeat(c, k - 1)

RECURSIVE TextOf(_, _)
\* a text whose symbol counts are those of the table cw
TextOf(cw, i) ==
    IF i > Len(cw) THEN <<>> ELSE Repeat(cw[i][1], cw[i][2]) \o TextOf(cw, i + 1)

\* huffman.rs:160: HuffmanTree::build is about to be called on a frequency
\* table; the tables are those of k symbols with counts up to MaxWeight,
\* iterated in every order of the counts
InitFreq ==
    /\ pc = "weights"
    /\ \E k \in 0..MaxSyms : \E w \in [1..k -> 1..MaxWeight] :
          /\ char_weight = [i \in 1..k |-> <<FreqSyms[i], w[i]>>]
          /\ source = TextOf([i \in 1..k |-> <<FreqSyms[i], w[i]>>], 1)
    /\ Blank

Panic(msg) ==
    /\ pc' = "panic"
    /\ err' = msg

----------------------------------------------------------------------------
(* The steps of HuffmanCodec::encode. *)

\* huffman.rs:158: CharWeightMap::build(&source)
BuildWeights ==
    /\ pc = "start"
    /\ \E ord \in Orders(CharWeightMapBuild(source)) : char_weight' = ord
    /\ pc' = "weights"
    /\ UNCHANGED <<source, buildVars, bit_map, encodeVars, decodeVars, err>>

\* huffman.rs:29-45: the node vector of HuffmanTree::build and its leaves.
\* 2 * n - 1 on n = 0 panics with overflow checks and wraps without them.
TreeInit ==
    /\ pc = "weights"
    /\ \E checks \in BOOLEAN :
         LET len == Len(char_weight)
             tot == IF 2 * len - 1 >= 0 THEN 2 * len - 1 ELSE UsizeMAX
         IN  IF 2 * len - 1 < 0 /\ checks
             THEN /\ Panic("attempt to subtract with overflow")
                  /\ UNCHANGED buildVars
             ELSE IF tot > MaxNodes
             THEN /\ Panic("capacity overflow")
                  /\ UNCHANGED buildVars
             ELSE /\ n' = len
                  /\ total' = tot
                  /\ vec' = [i \in 0..(tot - 1) |->
                               IF i < len
                               THEN [NewNode EXCEPT !.value = char_weight[i + 1][1],
                                                    !.weight = char_weight[i + 1][2]]
                               ELSE NewNode]
                  /\ index' = len
                  /\ UNCHANGED <<m1, m2, err>>
                  /\ pc' = "merge"
    /\ UNCHANGED <<source, char_weight, bit_map, encodeVars, decodeVars>>

\* huffman.rs:47-64: one iteration of the merge loop
MergeStep ==
    /\ pc = "merge"
    /\ index < total
    /\ LET a  == FindMin(vec, index)
           v1 == [vec EXCEPT ![a].parent = index]
           b  == FindMin(v1, index)
           v2 == [v1 EXCEPT ![b].parent = index]
           w  == v2[a].weight + v2[b].weight
       IN  IF a = NoNode
           THEN /\ Panic("unwrap on None")
                /\ UNCHANGED buildVars
           ELSE IF b = NoNode
           THEN /\ Panic("unwrap on None")
                /\ UNCHANGED buildVars
           ELSE /\ vec' = [v2 EXCEPT ![index] =
                             [@ EXCEPT !.weight = w, !.left = a, !.right = b]]
                /\ m1' = a
                /\ m2' = b
                /\ index' = index + 1
                /\ UNCHANGED <<pc, n, total, err>>
    /\ UNCHANGED <<source, char_weight, bit_map, encodeVars, decodeVars>>

\* huffman.rs:66 and 162: build returns vec.last(), its locals are dropped,
\* and HuffmanBinaryMap::build traverses the tree
MapBuild ==
    /\ pc = "merge"
    /\ index >= total
    /\ bit_map' = HuffmanBinaryMapBuild(vec, total - 1)
    /\ pc' = "mapped"
    /\ char_weight' = <<>>
    /\ n' = 0 /\ total' = 0 /\ vec' = <<>> /\ index' = 0
    /\ m1' = NoNode /\ m2' = NoNode
    /\ UNCHANGED <<source, encodeVars, decodeVars, err>>

\* huffman.rs:164-190: the bytes, the padding count and the codebook text
EncodePack ==
    /\ pc = "mapped"
    /\ IF \E i \in 1..Len(source) : ~MapHas(bit_map, source[i])
       THEN /\ Panic("unwrap on None")
            /\ UNCHANGED encodeVars
       ELSE LET p == Pack(source, bit_map)
            IN  /\ result' = p.result
                /\ space' = p.space
                /\ \E ord \in Orders(bit_map) : config' = ConfigText(p.space, ord)
                /\ pc' = "encoded"
                /\ UNCHANGED err
    /\ UNCHANGED <<source, char_weight, buildVars, bit_map, decodeVars>>

----------------------------------------------------------------------------
(* The steps of decompression. *)

\* main.rs:86: DecodeConfig::build on the codebook text, which is not used
\* afterwards
ConfigBuild ==
    /\ pc = "encoded"
    /\ LET cfg == DecodeConfigBuild(config)
       IN  IF cfg.panic
           THEN /\ Panic("unwrap on Err")
                /\ UNCHANGED <<inner, cfg_space, config>>
           ELSE /\ inner' = cfg.inner
                /\ cfg_space' = cfg.space
                /\ config' = <<>>
                /\ pc' = "config"
                /\ UNCHANGED err
    /\ UNCHANGED <<source, char_weight, buildVars, bit_map, result, space,
                   decoded, tmp_str>>

\* main.rs:89: HuffmanCodec::decode.  bit_str.len() - space below zero panics
\* with overflow checks and wraps without them.
Decode ==
    /\ pc \in {"config", "corrupted"}
    /\ \E checks \in BOOLEAN :
         LET bit_str  == JoinBits(result, 1)
             under    == Len(bit_str) - cfg_space < 0
             last_idx == IF under THEN UsizeMAX ELSE Len(bit_str) - cfg_space
             out      == DecodeLoop(bit_str, inner, last_idx, 0, <<>>, <<>>)
         IN  IF under /\ checks
             THEN /\ Panic("attempt to subtract with overflow")
                  /\ UNCHANGED <<decoded, tmp_str>>
             ELSE /\ decoded' = out.result
                  /\ tmp_str' = out.tmp_str
                  /\ pc' = "decoded"
                  /\ UNCHANGED err
    /\ UNCHANGED <<source, char_weight, buildVars, bit_map, encodeVars,
                   inner, cfg_space>>

\* main.rs:76-78: the payload given to decode is not the payload encode
\* returned: one bit of one byte of the file differs
Corrupt ==
    /\ pc = "config"
    /\ \E i \in 1..Len(result) : \E k \in 0..7 :
          result' = [result EXCEPT ![i] =
                       IF (@ \div (2 ^ k)) % 2 = 1 THEN @ - 2 ^ k ELSE @ + 2 ^ k]
    /\ pc' = "corrupted"
    /\ UNCHANGED <<source, char_weight, buildVars, bit_map, space, config,
                   decodeVars, err>>

----------------------------------------------------------------------------
(* The specifications. *)

NextEncode ==
    \/ BuildWeights
    \/ TreeInit
    \/ MergeStep
    \/ MapBuild
    \/ EncodePack

NextBuild ==
    \/ TreeInit
    \/ MergeStep
    \/ MapBuild

Next ==
    \/ NextEncode
    \/ ConfigBuild
    \/ Decode

NextCorrupt ==
    \/ Next
    \/ Corrupt

\* compress a text, then decompress what was written
Spec == Init /\ [][Next]_vars
\* compress a text
SpecEncode == Init /\ [][NextEncode]_vars
\* build the tree and the code table of a frequency table
SpecFreq == InitFreq /\ [][NextBuild]_vars
\* compress a text, then decompress a payload of which one bit may be flipped
SpecCorrupt == Init /\ [][NextCorrupt]_vars

----------------------------------------------------------------------------
(* What the properties speak of. *)

\* the distinct symbols of the input text
Symbols == {source[i] : i \in 1..Len(source)}
\* the number of occurrences of c in the input text
Freq(c) == Cardinality({i \in 1..Len(source) : source[i] = c})

\* s is a prefix of t, or equal to it
IsPrefix(s, t) == Len(s) <= Len(t) /\ \A i \in 1..Len(s) : s[i] = t[i]

\* the distinct symbols of the input text, one after another
SymbolSeq == CHOOSE o \in Orders(Symbols) : TRUE

RECURSIVE CostFrom(_, _, _)
CostFrom(f, len, i) ==
    IF i > Len(f) THEN 0 ELSE (f[i] * len[i]) + CostFrom(f, len, i + 1)

\* the total encoded bit length of a text in which the i-th symbol occurs
\* f[i] times, under a code that gives it len[i] bits
Cost(f, len) == CostFrom(f, len, 1)

RECURSIVE KraftFrom(_, _, _)
KraftFrom(len, maxlen, i) ==
    IF i > Len(len) THEN 0
    ELSE (2 ^ (maxlen - len[i])) + KraftFrom(len, maxlen, i + 1)

\* Kraft's inequality for code lengths of at most maxlen bits: some binary
\* prefix-free code gives the i-th symbol a codeword of len[i] bits, and
\* the lengths of every prefix-free code satisfy it
Kraft(len, maxlen) == KraftFrom(len, maxlen, 1) <= 2 ^ maxlen

\* more than any cost within the bounds: the cost of what cannot be done
NoCost == 2 ^ 20

Least(S) == CHOOSE m \in S : \A x \in S : m <= x

RECURSIVE MinCostFrom(_, _, _, _)
\* the least cost of code lengths of at most maxlen bits for the symbols
\* from the i-th on, when left is what the lengths of the symbols before
\* them leave of the 2 ^ maxlen of Kraft's inequality
MinCostFrom(f, maxlen, i, left) ==
    IF i > Len(f) THEN 0
    ELSE LET fits == {l \in 0..maxlen : 2 ^ (maxlen - l) <= left}
         IN  IF fits = {} THEN NoCost
             ELSE Least({(f[i] * l) +
                            MinCostFrom(f, maxlen, i + 1, left - 2 ^ (maxlen - l)) :
                         l \in fits})

\* the least total encoded bit length over the binary prefix-free codes of
\* the symbols whose codewords have no more bits than there are symbols:
\* the least cost over the code lengths that satisfy Kraft's inequality
MinPrefixCost(f) == MinCostFrom(f, Len(f), 1, 2 ^ Len(f))

\* the nodes find_min may return in the current iteration
Unconsumed == {i \in 0..(index - 1) : vec[i].parent = NoNode}

\* the tree is complete: the merge loop has ended and build is about to return
Built == pc = "merge" /\ index >= total

Leaves == {i \in DOMAIN vec : vec[i].value # NoChar}
Internals == {i \in DOMAIN vec : vec[i].value = NoChar}

\* bit j (from 1) of the payload, the high bit of each byte first
PayloadBit(j) == (result[((j - 1) \div 8) + 1] \div (2 ^ (7 - ((j - 1) % 8)))) % 2

RECURSIVE CodeBits(_)
\* the codes of the symbols of the text from position i on, one after another
CodeBits(i) ==
    IF i > Len(source) THEN <<>>
    ELSE [k \in 1..Len(MapGet(bit_map, source[i])) |->
             IF MapGet(bit_map, source[i])[k] THEN 1 ELSE 0] \o CodeBits(i + 1)

IsBitString(k) == \A i \in 1..Len(k) : k[i] \in {Bit0, Bit1}

----------------------------------------------------------------------------
(* The properties. *)

\* C1: a run never panics, and the text decode returns is the text that was
\* given to encode.
C1_RoundTrip ==
    /\ pc # "panic"
    /\ pc = "decoded" => decoded = source

\* C2: for a frequency table of at least one symbol, the total encoded bit
\* length under the code table (the sum over the symbols of count times code
\* length) is the least that any binary prefix-free code achieves, whatever
\* the order of the table.
C2_Optimal ==
    (pc = "mapped" /\ Symbols # {}) =>
        LET syms == SymbolSeq
            f    == [i \in 1..Len(syms) |-> Freq(syms[i])]
            mine == [i \in 1..Len(syms) |-> Len(MapGet(bit_map, syms[i]))]
        IN  /\ MapKeys(bit_map) = Symbols
            /\ \A p, q \in bit_map : p[1] # q[1] => ~IsPrefix(p[2], q[2])
            /\ Kraft(mine, Len(syms))
            /\ Cost(f, mine) = MinPrefixCost(f)

\* a table of four symbols whose codes have one, two and three bits
C2_Witness ==
    /\ pc = "mapped"
    /\ Cardinality(Symbols) = 4
    /\ {Len(p[2]) : p \in bit_map} = {1, 2, 3}

\* C3: for at least two distinct symbols the code table has one entry for
\* each symbol, and no symbol's code is a prefix of, or equal to, the code
\* of another symbol.
C3_PrefixFree ==
    (pc = "mapped" /\ Cardinality(Symbols) >= 2) =>
        /\ MapKeys(bit_map) = Symbols
        /\ Cardinality(bit_map) = Cardinality(Symbols)
        /\ \A p, q \in bit_map : p[1] # q[1] => ~IsPrefix(p[2], q[2])

\* a table of three symbols with codes of different lengths
C3_Witness ==
    /\ pc = "mapped"
    /\ Cardinality(Symbols) = 3
    /\ \E p, q \in bit_map : Len(p[2]) < Len(q[2])

\* C4: when encode returns, the padding count is in 0..7 and is the number
\* written after "space:" in the first line of the codebook; eight times the
\* number of bytes less the padding count is the sum of the code lengths of
\* the symbols of the text; the bits of the payload, high bit of each byte
\* first, are the codes of the symbols in order, and the padding bits after
\* them are zero.
C4_Padding ==
    pc = "encoded" =>
        LET bits == CodeBits(1)
        IN  /\ space \in 0..7
            /\ Len(config) >= 8
            /\ SubSeq(config, 1, 6) = <<"s", "p", "a", "c", "e", ":">>
            /\ config[7] = Digits[space + 1]
            /\ config[8] = "\n"
            /\ 8 * Len(result) - space = Len(bits)
            /\ \A j \in 1..(8 * Len(result)) :
                  PayloadBit(j) = IF j <= Len(bits) THEN bits[j] ELSE 0

\* a text encoded in two bytes, the second one padded, with a one before the
\* padding
C4_Witness ==
    /\ pc = "encoded"
    /\ Len(result) = 2
    /\ space \in 1..7
    /\ PayloadBit(16 - space) = 1

\* C5: the map DecodeConfig::build makes of the codebook text sends the bit
\* string of every symbol of the code table back to that symbol, and the
\* padding count it parses is the one encode computed.
C5_CodebookRoundTrip ==
    pc = "config" =>
        /\ cfg_space = space
        /\ \A p \in bit_map :
              /\ MapHas(inner, BitStr(p[2]))
              /\ MapGet(inner, BitStr(p[2])) = p[1]

\* C6: decode does not return a text when bits that matched no codebook
\* entry are left in the candidate bit string at the end of the usable bits.
C6_MismatchSurfaced ==
    pc = "decoded" => tmp_str = <<>>

\* C7: on the empty text nothing panics, the payload is empty, the padding
\* count is 0 and the decoded text is empty.
C7_EmptyInput ==
    source = <<>> =>
        /\ pc # "panic"
        /\ pc \in {"encoded", "config", "decoded"} => (result = <<>> /\ space = 0)
        /\ pc = "decoded" => decoded = <<>>

\* C8: for a text of one distinct symbol, the code of the symbol is not
\* empty and the decoded text is the text.
C8_SingleSymbol ==
    Cardinality(Symbols) = 1 =>
        /\ \A p \in bit_map : p[2] # <<>>
        /\ pc = "decoded" => decoded = source

\* the tree when build returns
TreeShape ==
    Built =>
        /\ n >= 1
        /\ n = Cardinality(Symbols)
        /\ index - n = n - 1
        /\ DOMAIN vec = 0..(2 * n - 2)
        /\ {i \in DOMAIN vec : vec[i].parent = NoNode} = {total - 1}
        /\ Cardinality(Leaves) = n
        /\ Cardinality(Internals) = n - 1
        /\ {vec[i].value : i \in Leaves} = Symbols
        /\ \A i \in Leaves :
              /\ vec[i].left = NoNode /\ vec[i].right = NoNode
              /\ vec[i].weight = Freq(vec[i].value)
        /\ \A i \in Internals :
              /\ vec[i].left \in DOMAIN vec /\ vec[i].right \in DOMAIN vec
              /\ vec[i].left # vec[i].right
              /\ vec[vec[i].left].parent = i /\ vec[vec[i].right].parent = i
              /\ vec[i].weight = vec[vec[i].left].weight + vec[vec[i].right].weight
        /\ \A i \in DOMAIN vec :
              vec[i].parent # NoNode =>
                  /\ vec[i].parent \in Internals
                  /\ vec[i].parent > i
                  /\ i \in {vec[vec[i].parent].left, vec[vec[i].parent].right}
        /\ vec[total - 1].weight = Len(source)

\* an iteration of the merge loop, from the state before it to the state
\* after it
MergeSelects ==
    (pc = "merge" /\ index < total) =>
        /\ pc' = "merge"
        /\ index' = index + 1
        /\ m1' \in Unconsumed /\ m2' \in Unconsumed
        /\ m1' # m2'
        /\ vec[m1'].weight <= vec[m2'].weight
        /\ \A j \in Unconsumed \ {m1', m2'} : vec[m2'].weight <= vec[j].weight

\* C9: the merge loop runs n - 1 times; in each iteration the two find_min
\* calls return two distinct parentless nodes of the two least weights among
\* the parentless nodes, and no unwrap fails; when build returns, the root
\* is the only parentless node, there are n leaves, one per symbol, and
\* n - 1 internal nodes with two children each, the weight of an internal
\* node is the sum of the weights of its children, and the weight of the
\* root is the length of the input.
C9_TreeStructure == [][MergeSelects]_vars /\ []TreeShape

\* a tree of four leaves whose root has two internal children
C9_Witness ==
    /\ Built
    /\ n = 4
    /\ vec[total - 1].left \in Internals
    /\ vec[total - 1].right \in Internals

\* C10: every key of the map of DecodeConfig::build that is made of the
\* characters 0 and 1 only is the bit string of a symbol of the code table
\* and maps to that symbol.
C10_HeaderOnlyPadding ==
    pc = "config" =>
        \A e \in inner :
            IsBitString(e[1]) =>
                \E p \in bit_map : BitStr(p[2]) = e[1] /\ p[1] = e[2]

====
